---- MODULE Spec2Model ----
(***************************************************************************)
(* A model of the INI reader of package config (src/config/reader.go,      *)
(* the documented copy in lines 210-445).  The input stream is a sequence  *)
(* of runes; every rune is a one-character string, except the control      *)
(* runes, which are named tokens (LF, CR, TAB, NUL).  Each action is one   *)
(* pass through the loop of ReadAll, parseHeader, parseOption or skip.     *)
(***************************************************************************)
EXTENDS Integers, Sequences, FiniteSets, TLC

VARIABLES
    input,          \* the runes the underlying io.Reader delivers
    streamEnd,      \* what the stream reports after them: "EOF" or "ReadFailure"
    pos,            \* bufio.Reader: number of runes consumed
    canUnread,      \* bufio.Reader: the last operation was a successful ReadRune
    field,          \* Reader.field
    line,           \* Reader.line
    column,         \* Reader.column
    currentSection, \* Reader.currentSection
    sections,       \* the map ReadAll is building
    pc,             \* the loop that runs next
    skipDelim,      \* skip: its argument delim
    skipRet,        \* skip: the call site it returns to
    section,        \* parseHeader: its result section
    key,            \* parseOption: its result key
    value,          \* parseOption: its result value
    lastRune,       \* parseOption: its local lastRune
    foundDelim,     \* parseOption: its local foundDelim
    retSections,    \* what ReadAll returned: [isNil, map]
    retErr          \* what ReadAll returned: the error

vars == <<input, streamEnd, pos, canUnread, field, line, column, currentSection,
          sections, pc, skipDelim, skipRet, section, key, value, lastRune,
          foundDelim, retSections, retErr>>

-----------------------------------------------------------------------------
(* Runes *)

LF == "LF"
CR == "CR"
TAB == "TAB"
NUL == "NUL"
SP == " "

\* the runes the exhaustive short inputs are made of
Alphabet == {"[", "]", "#", ";", "=", ":", SP, TAB, LF, CR, NUL, "a"}

\* The name NewReader gives the current section.
DefaultName == <<"d", "e", "f", "a", "u", "l", "t">>

-----------------------------------------------------------------------------
(* Errors and results *)

NoErr == [located |-> FALSE, line |-> 0, column |-> 0, err |-> "nil"]

\* an error value returned as it came from the stream (io.EOF or a read failure)
BareErr(e) == [located |-> FALSE, line |-> 0, column |-> 0, err |-> e]

\* Reader.error: a *ParseError at the cursor
ParseError(l, c, e) == [located |-> TRUE, line |-> l, column |-> c, err |-> e]

EmptyMap == <<>>

NilSections == [isNil |-> TRUE, map |-> EmptyMap]

Returned(m) == [isNil |-> FALSE, map |-> m]

-----------------------------------------------------------------------------
(* bufio.Reader, as readRune and unreadRune use it *)

\* bufio.Reader.ReadRune at position p of the stream (s, end): the next
\* rune, or rune 0 and the stream's error.  Only a successful ReadRune can be
\* undone by UnreadRune.
ReadRuneOf(s, end, p) ==
    IF p < Len(s)
    THEN [r |-> s[p + 1], err |-> "nil", pos |-> p + 1, can |-> TRUE]
    ELSE [r |-> NUL, err |-> end, pos |-> p, can |-> FALSE]

\* variant: a carriage return is never folded
readRuneNoFold(s, end, p) == ReadRuneOf(s, end, p)

\* Reader.readRune without its column++ : folds CR LF into LF; a CR followed
\* by another rune stays a CR and the rune read ahead is pushed back, after
\* which bufio has nothing left to unread.
readRuneOf(s, end, p) ==
    LET a == ReadRuneOf(s, end, p) IN
    IF a.r = CR
    THEN LET b == ReadRuneOf(s, end, a.pos) IN
         IF b.err = "nil"
         THEN IF b.r # LF
              THEN [r |-> CR, err |-> "nil", pos |-> b.pos - 1, can |-> FALSE]
              ELSE b
         ELSE b
    ELSE a

\* the same on the stream of the state
ReadRune(p) == ReadRuneOf(input, streamEnd, p)

readRune(p) == readRuneOf(input, streamEnd, p)

\* variant: the pushed-back rune is lost
UnreadPosLost(rr) == rr.pos

\* variant: the push-back steps back over two runes
UnreadPosTwo(rr) == IF rr.pos >= 2 THEN rr.pos - 2 ELSE 0

\* bufio.Reader.UnreadRune: steps back one rune if the last operation was a
\* successful ReadRune, and does nothing (ErrInvalidUnreadRune, which
\* unreadRune drops) otherwise.
UnreadPos(rr) == IF rr.can THEN rr.pos - 1 ELSE rr.pos

-----------------------------------------------------------------------------
(* Character classes and string helpers *)

\* variant: only '#' marks a comment
IsCommentHashOnly(r) == r = "#"

IsComment(r) == r \in {"#", ";"}

\* variant: only '=' separates key and value (the undocumented copy, line 189)
IsDelimEqualsOnly(r) == r = "="

IsDelim(r) == r \in {"=", ":"}

\* unicode.IsSpace on the runes of the model
IsSpace(r) == r \in {SP, TAB, LF, CR}

RECURSIVE TrimLeft(_)
TrimLeft(s) == IF s # <<>> /\ IsSpace(Head(s)) THEN TrimLeft(Tail(s)) ELSE s

RECURSIVE TrimRight(_)
TrimRight(s) ==
    IF s # <<>> /\ IsSpace(s[Len(s)]) THEN TrimRight(SubSeq(s, 1, Len(s) - 1)) ELSE s

\* variant: only leading white space is trimmed
TrimSpaceLeft(s) == TrimLeft(s)

\* strings.TrimSpace
TrimSpace(s) == TrimRight(TrimLeft(s))

\* value[:len(value)-1]
DropLast(v) == SubSeq(v, 1, Len(v) - 1)

\* variant: an empty name passes for a name
EmptySectionNever(name) == FALSE

\* parseHeader, line 388: section == ""
EmptySection(name) == name = <<>>

\* variant: a new section gets no option map
EnsureSectionNoCreate(secs, name) == secs

\* variant: a header always starts its section afresh
EnsureSectionAfresh(secs, name) == (name :> EmptyMap) @@ secs

\* ReadAll, lines 336-338: create the section's option map if it is new
EnsureSection(secs, name) ==
    IF name \in DOMAIN secs THEN secs ELSE secs @@ (name :> EmptyMap)

\* variant: a key that is already set keeps its value
InsertOptionKeepFirst(secs, cur, k, v) ==
    LET s1 == IF cur = DefaultName
              THEN (IF cur \in DOMAIN secs THEN secs ELSE secs @@ (cur :> EmptyMap))
              ELSE secs
    IN  [s1 EXCEPT ![cur] = s1[cur] @@ (k :> v)]

\* ReadAll, lines 349-354: sections[currentSection][key] = value, the default
\* section being created on first use
InsertOption(secs, cur, k, v) ==
    LET s1 == IF cur = DefaultName THEN EnsureSection(secs, cur) ELSE secs
    IN  [s1 EXCEPT ![cur] = (k :> v) @@ s1[cur]]

\* whether the insertion of lines 349-354 finds an option map to write to
HasOptionMap(secs, cur) == cur = DefaultName \/ cur \in DOMAIN secs

-----------------------------------------------------------------------------
(* ReadAll as a function of the stream: the same code, call by call.  It     *)
(* gives the outcome of ReadAll on a stream other than the one of the state. *)

RECURSIVE skipOf(_, _, _, _)
\* Reader.skip from position p: the error it returns and where it stops
skipOf(s, end, p, delim) ==
    LET rr == readRuneOf(s, end, p) IN
    IF rr.err # "nil" THEN [err |-> rr.err, pos |-> rr.pos]
    ELSE IF rr.r = delim THEN [err |-> "nil", pos |-> rr.pos]
    ELSE skipOf(s, end, rr.pos, delim)

RECURSIVE parseHeaderOf(_, _, _, _, _, _)
\* Reader.parseHeader from position p, on line l, with c characters read on
\* the line and f in the field buffer
parseHeaderOf(s, end, p, l, c, f) ==
    LET rr == readRuneOf(s, end, p) IN
    IF rr.err # "nil"
    THEN [section |-> <<>>, err |-> BareErr(rr.err), pos |-> rr.pos]
    ELSE IF IsComment(rr.r)
    THEN [section |-> <<>>, err |-> ParseError(l, c + 1, "ErrParse"), pos |-> rr.pos]
    ELSE IF rr.r = "]"
    THEN IF EmptySection(f)
         THEN [section |-> <<>>,
               err |-> ParseError(l, c + 1, "ErrEmptySectionHeader"),
               pos |-> rr.pos]
         ELSE LET sk == skipOf(s, end, rr.pos, LF) IN
              IF sk.err = "nil" \/ sk.err = "EOF"
              THEN [section |-> f, err |-> NoErr, pos |-> sk.pos]
              ELSE [section |-> f, err |-> BareErr(sk.err), pos |-> sk.pos]
    ELSE parseHeaderOf(s, end, rr.pos, l, c + 1, Append(f, rr.r))

RECURSIVE parseOptionOf(_, _, _, _, _, _, _)
\* Reader.parseOption from position p, with f in the field buffer, k its key
\* so far, last its lastRune and found its foundDelim
parseOptionOf(s, end, p, f, k, last, found) ==
    LET rr == readRuneOf(s, end, p) IN
    IF rr.err = "EOF"
    THEN [key |-> k, value |-> f, err |-> "nil", panic |-> FALSE, pos |-> rr.pos]
    ELSE IF rr.err # "nil"
    THEN [key |-> k, value |-> <<>>, err |-> rr.err, panic |-> FALSE, pos |-> rr.pos]
    ELSE IF (last = NUL \/ last = SP) /\ IsComment(rr.r)
    THEN IF Len(f) = 0
         THEN [key |-> k, value |-> <<>>, err |-> "nil", panic |-> TRUE, pos |-> rr.pos]
         ELSE LET sk == skipOf(s, end, rr.pos, LF) IN
              [key |-> k, value |-> DropLast(f), err |-> sk.err, panic |-> FALSE,
               pos |-> sk.pos]
    ELSE IF IsDelim(rr.r)
    THEN IF ~found
         THEN parseOptionOf(s, end, skipOf(s, end, rr.pos, SP).pos, <<>>, f, last, TRUE)
         ELSE parseOptionOf(s, end, rr.pos, Append(f, rr.r), k, rr.r, found)
    ELSE IF rr.r = LF
    THEN [key |-> k, value |-> f, err |-> "nil", panic |-> FALSE, pos |-> rr.pos]
    ELSE parseOptionOf(s, end, rr.pos, Append(f, rr.r), k, rr.r, found)

\* the ways ReadAll ends
OkOutcome(m) == [kind |-> "ok", map |-> m, err |-> NoErr]

ErrOutcome(e) == [kind |-> "error", map |-> EmptyMap, err |-> e]

PanicOutcome == [kind |-> "panic", map |-> EmptyMap, err |-> NoErr]

RECURSIVE readAllOf(_, _, _, _, _, _)
\* the loop of Reader.ReadAll from position p, after l lines, with cur the
\* current section and secs the map built so far
readAllOf(s, end, p, l, cur, secs) ==
    LET rr == readRuneOf(s, end, p) IN
    IF rr.err = "EOF" THEN OkOutcome(secs)
    ELSE IF rr.err # "nil" THEN ErrOutcome(BareErr(rr.err))
    ELSE IF IsComment(rr.r)
    THEN readAllOf(s, end, skipOf(s, end, rr.pos, LF).pos, l + 1, cur, secs)
    ELSE IF rr.r = "["
    THEN LET h == parseHeaderOf(s, end, rr.pos, l + 1, 1, <<>>) IN
         IF h.err # NoErr THEN ErrOutcome(h.err)
         ELSE readAllOf(s, end, h.pos, l + 1, h.section,
                        EnsureSection(secs, h.section))
    ELSE LET o == parseOptionOf(s, end, UnreadPos(rr), <<>>, <<>>, NUL, FALSE) IN
         IF o.panic THEN PanicOutcome
         ELSE IF o.err # "nil" THEN ErrOutcome(BareErr(o.err))
         ELSE LET k2 == TrimSpace(o.key) IN
              IF Len(k2) # 0
              THEN IF HasOptionMap(secs, cur)
                   THEN readAllOf(s, end, o.pos, l + 1, cur,
                                  InsertOption(secs, cur, k2, o.value))
                   ELSE PanicOutcome
              ELSE readAllOf(s, end, o.pos, l + 1, cur, secs)

\* NewReader(stream).ReadAll()
ReadAllOf(s, end) == readAllOf(s, end, 0, 0, DefaultName, EmptyMap)

-----------------------------------------------------------------------------
(* The inputs *)

\* bounds of the input families
MaxLen == 3

MaxLines == 2

MaxName == 2

MaxValue == 3

\* every rune sequence of at most MaxLen runes of the alphabet
ShortInputs == UNION {[1..n -> Alphabet] : n \in 0..MaxLen}

\* lines of the shapes the reader distinguishes
LinePool == {
    <<"[", "S", "]", LF>>,
    <<"[", "T", "]", LF>>,
    <<"k", SP, "=", SP, "v", LF>>,
    <<"k", ":", SP, "w", LF>>,
    <<"#", "[", "X", "]", LF>>,
    <<";", "k", SP, "=", SP, "x", LF>>,
    <<LF>>,
    <<"k", SP, "=", SP, "v", SP, "#", SP, "c", LF>>,
    <<"k", ":", SP, "v", "#", "n", LF>>,
    <<"k", "=", "v", LF>>,
    <<TAB, SP, "k", SP, ":", SP, "v", SP, "w", LF>>,
    <<TAB, "#", "k", SP, "=", SP, "v", LF>>,
    <<"k", SP, "=", SP, "z", SP, "=", SP, "x", LF>>,
    <<"[", "U", "#", LF>>,
    <<"j", LF>>,
    <<"k", SP, "=", SP, "#", SP, "c", LF>>,
    <<"k", "=", "z", ":", "x", SP, "y", LF>>}

RECURSIVE LinesUpTo(_)
LinesUpTo(n) ==
    IF n = 0 THEN {<<>>}
    ELSE LET shorter == LinesUpTo(n - 1)
         IN  shorter \cup {s \o l : s \in shorter, l \in LinePool}

\* every input of at most MaxLines lines of the pool
LineInputs == LinesUpTo(MaxLines)

\* the runes a section name may hold according to the header grammar
NameRunes == Alphabet \ {"]", "#", ";", LF}

\* "[name]\n" for every name of 1..MaxName such runes
HeaderInputs ==
    {<<"[">> \o name \o <<"]", LF>> :
        name \in UNION {[1..n -> NameRunes] : n \in 1..MaxName}}

\* the runes of the names and values of the option lines below
WordRunes == {"a", "b", SP}

\* the words of 1..n such runes that neither start nor end with a space
Words(n) ==
    {w \in UNION {[1..m -> WordRunes] : m \in 1..n} : w[1] # SP /\ w[Len(w)] # SP}

\* "key = value\n" and "key: value\n" for every such key and value
OptionInputs ==
    {k \o d \o v \o <<LF>> :
        k \in Words(MaxName), d \in {<<SP, "=", SP>>, <<":", SP>>},
        v \in Words(MaxName)}

\* the runes of the values of the option lines below
ValueRunes == {"a", SP, TAB, "#", ";", "=", NUL}

\* "k= value\n" for every value of 1..MaxValue such runes
ValueInputs ==
    {<<"k", "=", SP>> \o v \o <<LF>> :
        v \in UNION {[1..n -> ValueRunes] : n \in 1..MaxValue}}

\* the same inputs with the line feed of their last line left out
NoLFInputs == {SubSeq(s, 1, Len(s) - 1) : s \in LineInputs \ {<<>>}}

\* well-formed headers and option lines
PoolHeaders == {<<"[", "S", "]", LF>>, <<"[", "T", "]", LF>>}

PoolOptions ==
    {<<"k", SP, "=", SP, "v", LF>>, <<"k", ":", SP, "w", LF>>,
     <<"j", SP, "=", SP, "u", LF>>}

\* an optional option line, then three sections of one option line each
SectionInputs ==
    {pre \o h1 \o o1 \o h2 \o o2 \o h3 \o o3 :
        pre \in PoolOptions \cup {<<>>},
        h1 \in PoolHeaders, h2 \in PoolHeaders, h3 \in PoolHeaders,
        o1 \in PoolOptions, o2 \in PoolOptions, o3 \in PoolOptions}

\* option lines whose value is nothing but an inline comment: "k = # c\n",
\* "k: # c\n", "k : ;c\n" and the like
EmptyValueInputs ==
    {<<"k">> \o sp \o <<d, SP, m>> \o c \o <<LF>> :
        sp \in {<<>>, <<SP>>}, d \in {"=", ":"}, m \in {"#", ";"},
        c \in {<<>>, <<"c">>, <<SP, "c">>}}

RECURSIVE CRLF(_)
\* s with every line feed replaced by carriage return + line feed
CRLF(s) ==
    IF s = <<>> THEN <<>>
    ELSE (IF Head(s) = LF THEN <<CR, LF>> ELSE <<Head(s)>>) \o CRLF(Tail(s))

\* lines that end in carriage return + line feed: every line of the pool, and
\* every header of the pool followed by an option line
CRLFInputs ==
    {CRLF(l) : l \in LinePool}
        \cup {CRLF(h \o o) : h \in PoolHeaders, o \in PoolOptions}

\* a failing header on a later line: after an option without a space after
\* its delimiter, after a header with trailing content, after a blank line,
\* after a comment line
ErrorLineInputs == {
    <<"k", "=", LF, SP, "x", LF, "[", "#">>,
    <<"[", "S", "]", SP, "x", LF, "[", "]", LF>>,
    <<"k", SP, "=", SP, "v", LF, LF, "[", "]", LF>>,
    <<"#", "c", LF, "[", "T", ";", "]", LF>>}

\* the inputs of reader_test.go
InParseValidSectionHeader ==
    <<"[", "S", "o", "m", "e", SP, "s", "e", "c", "t", "i", "o", "n", "]",
    LF>>

InParseInvalidSectionHeader1 ==
    <<"[", "S", "o", "m", "e", SP, "s", "e", "c", "t", "i", "o", "n">>

InParseInvalidSectionHeader2 ==
    <<"[", "S", "o", "m", "e", SP, "s", "e", "c", "t", "i", "o", "n", "[",
    LF>>

InParseInvalidSectionHeader3 ==
    <<"[", "S", "o", "m", "e", SP, "s", "e", "c", "t", "i", "o", "n", "]",
    LF, "[", "O", "o", "p", "s", LF, "o", "p", "t", "i", "o", "n", SP,
    "=", SP, "v", "a", "l", "u", "e">>

InParseEmptySectionHeader ==
    <<"[", "]">>

InParseEmptyLines ==
    <<LF, "[", "S", "e", "c", "t", "i", "o", "n", SP, "1", "]", LF, LF,
    "[", "S", "e", "c", "t", "i", "o", "n", SP, "2", "]">>

InParseCommentLines ==
    <<LF, "[", "S", "e", "c", "t", "i", "o", "n", SP, "1", "]", LF, "#",
    "[", "C", "o", "m", "m", "e", "n", "t", SP, "s", "e", "c", "t", "i",
    "o", "n", "]", LF, TAB, "#", "[", "A", "n", "o", "t", "h", "e", "r",
    SP, "c", "o", "m", "m", "e", "n", "t", SP, "s", "e", "c", "t", "i",
    "o", "n", "]", LF, "[", "S", "e", "c", "t", "i", "o", "n", SP, "2",
    "]">>

InDefaultParseOption ==
    <<"S", "o", "m", "e", SP, "o", "p", "t", "i", "o", "n", SP, "=", SP,
    "s", "o", "m", "e", SP, "v", "a", "l", "u", "e", LF>>

InParseOption1 ==
    <<"[", "S", "o", "m", "e", SP, "s", "e", "c", "t", "i", "o", "n", "]",
    LF, "S", "o", "m", "e", "O", "p", "t", "i", "o", "n", SP, "=", SP,
    "z", SP, "=", SP, "x", SP, "+", SP, "y", LF>>

InParseOption2 ==
    <<"[", "S", "o", "m", "e", SP, "s", "e", "c", "t", "i", "o", "n", "]",
    LF, "S", "o", "m", "e", "O", "p", "t", "i", "o", "n", ":", SP, "z",
    SP, "=", SP, "x", SP, "+", SP, "y", LF>>

InParseOption3 ==
    <<"[", "S", "o", "m", "e", SP, "s", "e", "c", "t", "i", "o", "n", "]",
    LF, TAB, TAB, SP, SP, "S", "o", "m", "e", "O", "p", "t", "i", "o",
    "n", ":", SP, "z", SP, "=", SP, "x", SP, "+", SP, "y", LF>>

InParseOptionWithComment ==
    <<"[", "S", "o", "m", "e", SP, "s", "e", "c", "t", "i", "o", "n", "]",
    LF, "S", "o", "m", "e", "O", "p", "t", "i", "o", "n", ":", SP, "z",
    SP, "=", SP, "x", SP, "+", SP, "y", SP, "#", SP, "S", "o", "m", "e",
    SP, "c", "o", "m", "m", "e", "n", "t", LF>>

InParseOptionWithoutAComment ==
    <<"[", "S", "o", "m", "e", SP, "s", "e", "c", "t", "i", "o", "n", "]",
    LF, "S", "o", "m", "e", "O", "p", "t", "i", "o", "n", ":", SP, "z",
    SP, "=", SP, "x", SP, "+", SP, "y", "#", "N", "o", "t", SP, "a", SP,
    "c", "o", "m", "m", "e", "n", "t", LF>>

TestInputs == {
    InParseValidSectionHeader,
    InParseInvalidSectionHeader1,
    InParseInvalidSectionHeader2,
    InParseInvalidSectionHeader3,
    InParseEmptySectionHeader,
    InParseEmptyLines,
    InParseCommentLines,
    InDefaultParseOption,
    InParseOption1,
    InParseOption2,
    InParseOption3,
    InParseOptionWithComment,
    InParseOptionWithoutAComment}

Inputs ==
    ShortInputs \cup LineInputs \cup HeaderInputs \cup OptionInputs
        \cup ValueInputs \cup NoLFInputs \cup SectionInputs
        \cup EmptyValueInputs \cup CRLFInputs \cup ErrorLineInputs
        \cup TestInputs

-----------------------------------------------------------------------------
(* The reader *)

\* NewReader followed by the first statement of ReadAll
Init ==
    /\ input \in Inputs
    /\ streamEnd \in {"EOF", "ReadFailure"}
    /\ pos = 0
    /\ canUnread = FALSE
    /\ field = <<>>
    /\ line = 0
    /\ column = 0
    /\ currentSection = DefaultName
    /\ sections = EmptyMap
    /\ pc = "ReadAll"
    /\ skipDelim = LF
    /\ skipRet = "ReadAll"
    /\ section = <<>>
    /\ key = <<>>
    /\ value = <<>>
    /\ lastRune = NUL
    /\ foundDelim = FALSE
    /\ retSections = NilSections
    /\ retErr = NoErr

\* variant: a failing ReadAll hands out the sections parsed so far
ReturnPartial(m, e) ==
    /\ pc' = "done"
    /\ retSections' = IF e = NoErr THEN m ELSE Returned(sections)
    /\ retErr' = e

\* ReadAll returns (m, e)
Return(m, e) ==
    /\ pc' = "done"
    /\ retSections' = m
    /\ retErr' = e

\* ReadAll, lines 343-355, once parseOption has returned (k, v, e)
AfterParseOption(k, v, e) ==
    IF e # "nil"
    THEN Return(NilSections, BareErr(e)) /\ UNCHANGED sections
    ELSE LET k2 == TrimSpace(k) IN
         IF Len(k2) # 0
         THEN IF HasOptionMap(sections, currentSection)
              THEN /\ sections' = InsertOption(sections, currentSection, k2, v)
                   /\ pc' = "ReadAll"
                   /\ UNCHANGED <<retSections, retErr>>
              ELSE /\ pc' = "panic"
                   /\ UNCHANGED <<sections, retSections, retErr>>
         ELSE /\ pc' = "ReadAll"
              /\ UNCHANGED <<sections, retSections, retErr>>

\* One pass of the loop of ReadAll up to the call it makes (lines 319-342).
ReadAllStep ==
    /\ pc = "ReadAll"
    /\ line' = line + 1
    /\ LET rr == readRune(pos) IN
       IF rr.err = "EOF"
       THEN /\ Return(Returned(sections), NoErr)
            /\ pos' = rr.pos /\ canUnread' = rr.can /\ column' = 1
            /\ UNCHANGED <<field, skipDelim, skipRet, section, key, value,
                           lastRune, foundDelim>>
       ELSE IF rr.err # "nil"
       THEN /\ Return(NilSections, BareErr(rr.err))
            /\ pos' = rr.pos /\ canUnread' = rr.can /\ column' = 1
            /\ UNCHANGED <<field, skipDelim, skipRet, section, key, value,
                           lastRune, foundDelim>>
       ELSE IF IsComment(rr.r)
       THEN /\ pc' = "skip" /\ skipDelim' = LF /\ skipRet' = "ReadAll"
            /\ pos' = rr.pos /\ canUnread' = rr.can /\ column' = 1
            /\ UNCHANGED <<field, section, key, value, lastRune, foundDelim,
                           retSections, retErr>>
       ELSE IF rr.r = "["
       THEN /\ pc' = "parseHeader" /\ field' = <<>> /\ section' = <<>>
            /\ pos' = rr.pos /\ canUnread' = rr.can /\ column' = 1
            /\ UNCHANGED <<skipDelim, skipRet, key, value, lastRune, foundDelim,
                           retSections, retErr>>
       ELSE /\ pc' = "parseOption"
            /\ pos' = UnreadPos(rr) /\ canUnread' = FALSE /\ column' = 0
            /\ field' = <<>> /\ key' = <<>> /\ value' = <<>>
            /\ lastRune' = NUL /\ foundDelim' = FALSE
            /\ UNCHANGED <<skipDelim, skipRet, section, retSections, retErr>>
    /\ UNCHANGED <<input, streamEnd, currentSection, sections>>

\* One pass of the loop of parseHeader (lines 378-399); its error returns run
\* on through lines 333-335 of ReadAll.
ParseHeaderStep ==
    /\ pc = "parseHeader"
    /\ LET rr == readRune(pos) IN
       /\ pos' = rr.pos /\ canUnread' = rr.can /\ column' = column + 1
       /\ IF rr.err # "nil"
          THEN /\ Return(NilSections, BareErr(rr.err))
               /\ UNCHANGED <<field, section, skipDelim, skipRet>>
          ELSE IF IsComment(rr.r)
          THEN /\ Return(NilSections, ParseError(line, column + 1, "ErrParse"))
               /\ UNCHANGED <<field, section, skipDelim, skipRet>>
          ELSE IF rr.r = "]"
          THEN IF EmptySection(field)
               THEN /\ Return(NilSections,
                              ParseError(line, column + 1, "ErrEmptySectionHeader"))
                    /\ UNCHANGED <<field, section, skipDelim, skipRet>>
               ELSE /\ section' = field
                    /\ pc' = "skip" /\ skipDelim' = LF /\ skipRet' = "parseHeader"
                    /\ UNCHANGED <<field, retSections, retErr>>
          ELSE /\ field' = Append(field, rr.r)
               /\ UNCHANGED <<pc, section, skipDelim, skipRet, retSections, retErr>>
    /\ UNCHANGED <<input, streamEnd, line, currentSection, sections, key, value,
                   lastRune, foundDelim>>

\* One pass of the loop of parseOption (lines 411-442); its returns run on
\* through lines 343-355 of ReadAll.
ParseOptionStep ==
    /\ pc = "parseOption"
    /\ LET rr == readRune(pos) IN
       /\ pos' = rr.pos /\ canUnread' = rr.can /\ column' = column + 1
       /\ IF rr.err = "EOF"
          THEN /\ value' = field
               /\ AfterParseOption(key, field, "nil")
               /\ UNCHANGED <<field, key, lastRune, foundDelim, skipDelim, skipRet>>
          ELSE IF rr.err # "nil"
          THEN /\ AfterParseOption(key, value, rr.err)
               /\ UNCHANGED <<field, key, value, lastRune, foundDelim, skipDelim,
                              skipRet>>
          ELSE IF (lastRune = NUL \/ lastRune = SP) /\ IsComment(rr.r)
          THEN IF Len(field) = 0
               THEN /\ pc' = "panic"
                    /\ UNCHANGED <<field, key, value, lastRune, foundDelim,
                                   skipDelim, skipRet, sections, retSections,
                                   retErr>>
               ELSE /\ value' = DropLast(field)
                    /\ pc' = "skip" /\ skipDelim' = LF
                    /\ skipRet' = "parseOption:comment"
                    /\ UNCHANGED <<field, key, lastRune, foundDelim, sections,
                                   retSections, retErr>>
          ELSE IF IsDelim(rr.r)
          THEN IF ~foundDelim
               THEN /\ key' = field
                    /\ pc' = "skip" /\ skipDelim' = SP
                    /\ skipRet' = "parseOption:delim"
                    /\ UNCHANGED <<field, value, lastRune, foundDelim, sections,
                                   retSections, retErr>>
               ELSE /\ field' = Append(field, rr.r)
                    /\ lastRune' = rr.r
                    /\ UNCHANGED <<pc, key, value, foundDelim, skipDelim, skipRet,
                                   sections, retSections, retErr>>
          ELSE IF rr.r = LF
          THEN /\ value' = field
               /\ AfterParseOption(key, field, "nil")
               /\ UNCHANGED <<field, key, lastRune, foundDelim, skipDelim, skipRet>>
          ELSE /\ field' = Append(field, rr.r)
               /\ lastRune' = rr.r
               /\ UNCHANGED <<pc, key, value, foundDelim, skipDelim, skipRet,
                              sections, retSections, retErr>>
    /\ UNCHANGED <<input, streamEnd, line, currentSection, section>>

\* skip has returned e to its call site.
AfterSkip(e) ==
    IF skipRet = "ReadAll"
    THEN \* line 330: the result of skip is dropped
         /\ pc' = "ReadAll"
         /\ UNCHANGED <<field, currentSection, sections, foundDelim, retSections,
                        retErr>>
    ELSE IF skipRet = "parseHeader"
    THEN \* lines 391-396, then lines 333-339 of ReadAll
         IF e = "nil" \/ e = "EOF"
         THEN /\ sections' = EnsureSection(sections, section)
              /\ currentSection' = section
              /\ pc' = "ReadAll"
              /\ UNCHANGED <<field, foundDelim, retSections, retErr>>
         ELSE /\ Return(NilSections, BareErr(e))
              /\ UNCHANGED <<field, currentSection, sections, foundDelim>>
    ELSE IF skipRet = "parseOption:delim"
    THEN \* lines 429-431: the result of skip is dropped
         /\ foundDelim' = TRUE
         /\ field' = <<>>
         /\ pc' = "parseOption"
         /\ UNCHANGED <<currentSection, sections, retSections, retErr>>
    ELSE \* line 422: parseOption returns the result of skip as its error
         /\ AfterParseOption(key, value, e)
         /\ UNCHANGED <<field, currentSection, foundDelim>>

\* One pass of the loop of skip (lines 363-371).
SkipStep ==
    /\ pc = "skip"
    /\ LET rr == readRune(pos) IN
       /\ pos' = rr.pos /\ canUnread' = rr.can /\ column' = column + 1
       /\ IF rr.err # "nil"
          THEN AfterSkip(rr.err)
          ELSE IF rr.r = skipDelim
          THEN AfterSkip("nil")
          ELSE UNCHANGED <<pc, field, currentSection, sections, foundDelim,
                           retSections, retErr>>
    /\ UNCHANGED <<input, streamEnd, line, skipDelim, skipRet, section, key, value,
                   lastRune>>

Next == ReadAllStep \/ ParseHeaderStep \/ ParseOptionStep \/ SkipStep

Spec == Init /\ [][Next]_vars

\* ReadAll is one synchronous call: a step that can be taken is taken
LiveSpec == Spec /\ WF_vars(Next)

-----------------------------------------------------------------------------
(* Vocabulary of the properties *)

\* ReadAll has ended, by returning or by a run-time panic
Ended == pc \in {"done", "panic"}

\* ReadAll returned a Document and a nil error
Succeeded == pc = "done" /\ retErr = NoErr /\ ~retSections.isNil

\* ReadAll returned a nil Document and the *ParseError (l, c, e)
FailedAt(l, c, e) ==
    pc = "done" /\ retSections.isNil /\ retErr = ParseError(l, c, e)

\* the way the ReadAll of the state has ended
Outcome ==
    IF pc = "panic" THEN PanicOutcome
    ELSE IF retErr = NoErr THEN OkOutcome(retSections.map)
    ELSE ErrOutcome(retErr)

\* the steps of the reader and ReadAll as a function end the same way
StepsAgreeWithFunction == Ended => Outcome = ReadAllOf(input, streamEnd)

CommentMarkers == {"#", ";"}

Delimiters == {"=", ":"}

\* the number of logical characters (CR LF counting as one) in s[1..m]
Folded(s, m) == m - Cardinality({i \in 1..(m - 1) : s[i] = CR /\ s[i + 1] = LF})

-----------------------------------------------------------------------------
(* C1 *)

\* s is "[name]\n" with a non-empty name free of ']', '#', ';' and line feed
C1_IsHeaderLine(s) ==
    /\ Len(s) >= 4
    /\ s[1] = "[" /\ s[Len(s) - 1] = "]" /\ s[Len(s)] = LF
    /\ \A i \in 2..(Len(s) - 2) : s[i] \notin {"]", "#", ";", LF}

C1_Name(s) == SubSeq(s, 2, Len(s) - 2)

\* C1: on the input "[name]\n", for every non-empty name without ']', '#',
\* ';' or line feed, ReadAll succeeds and returns a Document with exactly one
\* section, keyed by that name, whose option map is empty.
C1_SingleHeader ==
    (Ended /\ streamEnd = "EOF" /\ C1_IsHeaderLine(input)) =>
        /\ Succeeded
        /\ DOMAIN retSections.map = {C1_Name(input)}
        /\ retSections.map[C1_Name(input)] = EmptyMap

C1_Witness ==
    /\ input = InParseValidSectionHeader
    /\ streamEnd = "EOF"
    /\ Succeeded
    /\ DOMAIN retSections.map = {C1_Name(InParseValidSectionHeader)}

-----------------------------------------------------------------------------
(* C2 *)

\* a rune with no role in the grammar
Plain(r) == r \notin {"[", "]", "#", ";", "=", ":", SP, TAB, LF, CR, NUL}

\* s[a..b] is a non-empty run of plain runes and single inner spaces
C2_IsWord(s, a, b) ==
    /\ a <= b
    /\ Plain(s[a]) /\ Plain(s[b])
    /\ \A i \in a..b : Plain(s[i]) \/ s[i] = SP

\* s is "key = value\n": key, space, '=', space, value, line feed
C2_IsOptionLine(s) ==
    /\ Len(s) >= 6
    /\ s[Len(s)] = LF
    /\ \E d \in 3..(Len(s) - 3) :
          /\ s[d] = "=" /\ s[d - 1] = SP /\ s[d + 1] = SP
          /\ C2_IsWord(s, 1, d - 2)
          /\ C2_IsWord(s, d + 2, Len(s) - 1)

C2_Delim(s) == CHOOSE d \in 1..Len(s) : s[d] = "="

C2_Key(s) == SubSeq(s, 1, C2_Delim(s) - 2)

C2_Value(s) == SubSeq(s, C2_Delim(s) + 2, Len(s) - 1)

\* C2: an option line before any section header is stored in the implicit
\* section "default": for the input "key = value\n" ReadAll returns exactly
\* one section, "default", holding exactly the one option key -> "value".
C2_DefaultSection ==
    (Ended /\ streamEnd = "EOF" /\ C2_IsOptionLine(input)) =>
        /\ Succeeded
        /\ DOMAIN retSections.map = {DefaultName}
        /\ retSections.map[DefaultName] = (C2_Key(input) :> C2_Value(input))

C2_Witness ==
    /\ input = InDefaultParseOption
    /\ streamEnd = "EOF"
    /\ Succeeded
    /\ DefaultName \in DOMAIN retSections.map
    /\ DOMAIN retSections.map[DefaultName] =
          {<<"S", "o", "m", "e", SP, "o", "p", "t", "i", "o", "n">>}

-----------------------------------------------------------------------------
(* C3 *)

\* s is a '[' that no ']' closes and no comment marker follows
C3_IsOpenHeader(s) ==
    /\ Len(s) >= 1
    /\ s[1] = "["
    /\ \A i \in 2..Len(s) : s[i] \notin {"]", "#", ";"}

\* C3: if end of input is reached after a '[' and before its closing ']',
\* ReadAll returns a located error (a ParseError with line and column) whose
\* kind is invalid section header, not a bare end-of-input error and not
\* success.
C3_UnterminatedAtEOF ==
    (Ended /\ streamEnd = "EOF" /\ C3_IsOpenHeader(input)) =>
        /\ pc = "done"
        /\ retSections.isNil
        /\ retErr.located
        /\ retErr.err = "ErrParse"

-----------------------------------------------------------------------------
(* C4 *)

\* after the '[' that starts s, a line feed or a second '[' comes before any
\* ']' and before any comment marker
C4_IsBrokenHeader(s) ==
    /\ Len(s) >= 2
    /\ s[1] = "["
    /\ \E j \in 2..Len(s) :
          /\ s[j] \in {LF, "["}
          /\ \A i \in 2..(j - 1) : s[i] \notin {"]", "#", ";"}

\* C4: a section header must be closed on its own line: if a line feed or a
\* second '[' is met after '[' before the closing ']', ReadAll fails with a
\* located invalid-section-header error that reports the line on which the
\* header started (here the first line); the line feed is never absorbed into
\* a section name.
C4_HeaderOnOneLine ==
    (Ended /\ streamEnd = "EOF" /\ C4_IsBrokenHeader(input)) =>
        /\ pc = "done"
        /\ retSections.isNil
        /\ retErr.located
        /\ retErr.err = "ErrParse"
        /\ retErr.line = 1

-----------------------------------------------------------------------------
(* C5 *)

\* s starts with '[' and s[m] is the first comment marker, with no ']' before
C5_MarkerAt(s, m) ==
    /\ 2 <= m /\ m <= Len(s)
    /\ s[1] = "["
    /\ s[m] \in CommentMarkers
    /\ \A i \in 2..(m - 1) : s[i] \notin (CommentMarkers \cup {"]"})

\* C5: if a comment marker is read after '[' and before the closing ']',
\* ReadAll aborts with a located invalid-section-header error whose line and
\* column are those of the cursor at the marker (the line of the scan and the
\* number of characters read on it, the marker included), and no section is
\* created for that header.
C5_MarkerInHeader ==
    /\ \A m \in 1..Len(input) :
          (Ended /\ C5_MarkerAt(input, m)) =>
              /\ FailedAt(1, Folded(input, m), "ErrParse")
              /\ sections = EmptyMap
    /\ (pc = "done" /\ retErr.err = "ErrParse") =>
          /\ FailedAt(line, column, "ErrParse")
          /\ pos >= 2
          /\ input[pos] \in CommentMarkers

C5_Witness ==
    /\ C5_MarkerAt(input, 3)
    /\ FailedAt(1, 3, "ErrParse")
    /\ streamEnd = "EOF"

-----------------------------------------------------------------------------
(* C6 *)

-----------------------------------------------------------------------------
(* C7 *)

\* s is "k= value\n" with a non-empty value that holds no carriage return
\* and does not start with a comment marker
C7_IsOptionLine(s) ==
    /\ Len(s) >= 5
    /\ s[1] = "k" /\ s[2] = "=" /\ s[3] = SP /\ s[Len(s)] = LF
    /\ s[4] \notin CommentMarkers
    /\ \A i \in 4..(Len(s) - 1) : s[i] \notin {LF, CR}

\* the indexes of the comment markers of s that directly follow a space
C7_CommentStarts(s) ==
    {i \in 5..(Len(s) - 1) : s[i] \in CommentMarkers /\ s[i - 1] = SP}

\* the value of s: up to the space before the first such marker, or all of it
C7_Value(s) ==
    IF C7_CommentStarts(s) = {}
    THEN SubSeq(s, 4, Len(s) - 1)
    ELSE LET m == CHOOSE i \in C7_CommentStarts(s) :
                     \A j \in C7_CommentStarts(s) : i <= j
         IN  SubSeq(s, 4, m - 2)

\* C7: inside a non-empty option value a comment marker starts an inline
\* comment if and only if the character immediately before it is a space:
\* "k = v # comment" stores k -> "v" (the separating space, the marker and the
\* comment are removed), "k: v#not-comment" stores k -> "v#not-comment".
C7_InlineComment ==
    (Ended /\ streamEnd = "EOF" /\ C7_IsOptionLine(input)) =>
        /\ Succeeded
        /\ DOMAIN retSections.map = {DefaultName}
        /\ retSections.map[DefaultName] = (<<"k">> :> C7_Value(input))

\* the same statement for the values that hold no NUL rune
C7_InlineCommentNoNUL ==
    (\A i \in 1..Len(input) : input[i] # NUL) => C7_InlineComment

-----------------------------------------------------------------------------
(* C8 *)

\* s is one option line: plain runes, spaces and delimiters, starting with a
\* plain rune, holding a delimiter, ended by the only line feed
C8_IsOptionLine(s) ==
    /\ Len(s) >= 3
    /\ s[Len(s)] = LF
    /\ Plain(s[1])
    /\ \A i \in 1..(Len(s) - 1) : Plain(s[i]) \/ s[i] = SP \/ s[i] \in Delimiters
    /\ \E i \in 1..(Len(s) - 1) : s[i] \in Delimiters

\* the first delimiter of s
C8_Delim(s) ==
    CHOOSE d \in 1..Len(s) :
        s[d] \in Delimiters /\ \A i \in 1..(d - 1) : s[i] \notin Delimiters

\* the key of s: what precedes the first delimiter, trailing spaces removed
C8_Key(s) ==
    LET d == C8_Delim(s)
        e == CHOOSE n \in 1..(d - 1) :
                 s[n] # SP /\ \A i \in (n + 1)..(d - 1) : s[i] = SP
    IN  SubSeq(s, 1, e)

\* the number of delimiters in s[a..b]
C8_Delims(s, a, b) == Cardinality({i \in a..b : s[i] \in Delimiters})

\* C8: only the first delimiter of an option line ends the key, and both '='
\* and ':' are delimiters: every later '=' or ':' of the line is kept in the
\* stored value.
C8_LaterDelimitersKept ==
    (Ended /\ streamEnd = "EOF" /\ C8_IsOptionLine(input)) =>
        /\ Succeeded
        /\ DOMAIN retSections.map = {DefaultName}
        /\ DOMAIN retSections.map[DefaultName] = {C8_Key(input)}
        /\ LET v == retSections.map[DefaultName][C8_Key(input)]
           IN  C8_Delims(v, 1, Len(v))
                   = C8_Delims(input, C8_Delim(input) + 1, Len(input))

-----------------------------------------------------------------------------
(* C9 *)

WhiteSpace == {SP, TAB, LF, CR}

\* every option key of the Document m is non-empty and neither starts nor
\* ends with white space
C9_KeysTrimmed(m) ==
    \A s \in DOMAIN m : \A k \in DOMAIN m[s] :
        Len(k) >= 1 /\ k[1] \notin WhiteSpace /\ k[Len(k)] \notin WhiteSpace

\* k is empty once its white space is trimmed
C9_Blank(k) == \A i \in 1..Len(k) : k[i] \in WhiteSpace

\* the next read ends the option line being parsed: parseOption returns its
\* key and value with a nil error
C9_LineEnds ==
    LET rr == readRune(pos) IN
    \/ pc = "parseOption" /\ (rr.err = "EOF" \/ (rr.err = "nil" /\ rr.r = LF))
    \/ pc = "skip" /\ skipRet = "parseOption:comment" /\ rr.err = "nil" /\ rr.r = LF

C9_WitnessBlank ==
    /\ input = <<SP, "=", "a">>
    /\ streamEnd = "EOF"
    /\ Succeeded
    /\ key = <<SP>>
    /\ retSections.map = EmptyMap

-----------------------------------------------------------------------------
(* C10 *)

\* s is one comment line: it starts with '#' or ';', or with a tab and '#',
\* and its only line feed ends it
C10_IsCommentLine(s) ==
    /\ Len(s) >= 2
    /\ s[Len(s)] = LF
    /\ \A i \in 1..(Len(s) - 1) : s[i] # LF
    /\ s[1] \in CommentMarkers \/ (Len(s) >= 3 /\ s[1] = TAB /\ s[2] = "#")

\* C10: a comment line (first character '#' or ';', or a tab-indented '#'
\* line) leaves the Document unchanged: it creates no section and no option,
\* even when its text looks like a header or an option.
C10_CommentLineIgnored ==
    (Ended /\ streamEnd = "EOF" /\ C10_IsCommentLine(input)) =>
        /\ Succeeded
        /\ retSections.map = EmptyMap

\* the same statement for the lines whose first character is '#' or ';'
C10_MarkerFirstIgnored ==
    (input # <<>> /\ input[1] \in CommentMarkers) => C10_CommentLineIgnored

-----------------------------------------------------------------------------
(* C11 *)

\* s with the line b put in after its first i runes
InsertAt(s, i, b) == SubSeq(s, 1, i) \o b \o SubSeq(s, i + 1, Len(s))

\* the places of s where a line starts
LineStarts(s) == {i \in 0..Len(s) : i = 0 \/ s[i] = LF}

\* a blank line and lines of white space only
BlankLines == {<<LF>>, <<SP, LF>>, <<TAB, LF>>}

\* C11: blank lines and lines of white space only are ignored anywhere in the
\* input: putting such a line before, between or after the lines of the input
\* changes neither the returned Document nor whether ReadAll fails.
C11_BlankLinesIgnored ==
    (Ended /\ streamEnd = "EOF") =>
        \A i \in LineStarts(input) : \A b \in BlankLines :
            LET o == ReadAllOf(InsertAt(input, i, b), "EOF")
            IN  o.kind = Outcome.kind /\ o.map = Outcome.map

\* the same statement for the inputs in which every delimiter is followed by
\* a space and every '[' is closed on its line
C11_Regular(s) ==
    /\ \A i \in 1..Len(s) : s[i] \in Delimiters => (i < Len(s) /\ s[i + 1] = SP)
    /\ \A i \in 1..Len(s) : s[i] = "[" =>
          \E j \in (i + 1)..Len(s) :
              s[j] = "]" /\ \A n \in (i + 1)..(j - 1) : s[n] \notin {LF, "["}

C11_BlankLinesIgnoredRegular == C11_Regular(input) => C11_BlankLinesIgnored

-----------------------------------------------------------------------------
(* C12 *)

\* s is "name=value\n": a word, a delimiter, a word, a line feed
C12_IsTightOption(s, d) ==
    /\ 2 <= d /\ d <= Len(s) - 2
    /\ s[Len(s)] = LF
    /\ s[d] \in Delimiters
    /\ C2_IsWord(s, 1, d - 1)
    /\ C2_IsWord(s, d + 1, Len(s) - 1)

\* C12: after the delimiter only the spaces that directly follow it are
\* discarded, no other character of the value is dropped and the discarding
\* never runs past the end of the line: "name=value\n" stores name -> "value",
\* as "name = value\n" does.
C12_NoSpaceAfterDelimiter ==
    \A d \in 1..Len(input) :
        (Ended /\ streamEnd = "EOF" /\ C12_IsTightOption(input, d)) =>
            /\ Succeeded
            /\ retSections.map =
                  (DefaultName :>
                      (SubSeq(input, 1, d - 1) :> SubSeq(input, d + 1, Len(input) - 1)))

-----------------------------------------------------------------------------
(* Inputs made of well-formed lines, and what their lines say *)

MaxOf(S) == CHOOSE x \in S : \A y \in S : y <= x

\* the places of s where a line of s starts
Starts(s) == {i \in LineStarts(s) : i < Len(s)}

\* the line of s that starts after its first i runes, its line feed included
LineAt(s, i) ==
    LET e == CHOOSE j \in (i + 1)..Len(s) :
                 s[j] = LF /\ \A n \in (i + 1)..(j - 1) : s[n] # LF
    IN  SubSeq(s, i + 1, e)

\* l is "key = value\n", "key: value\n" or "key : value\n" with its delimiter
\* at d: a word, a delimiter and one space, a word, a line feed
IsOptionLineAt(l, d) ==
    /\ 2 <= d /\ d <= Len(l) - 3
    /\ l[Len(l)] = LF
    /\ l[d] \in Delimiters /\ l[d + 1] = SP
    /\ C2_IsWord(l, 1, IF l[d - 1] = SP THEN d - 2 ELSE d - 1)
    /\ C2_IsWord(l, d + 2, Len(l) - 1)

IsOptionLine(l) == \E d \in 1..Len(l) : IsOptionLineAt(l, d)

OptionKey(l) ==
    LET d == CHOOSE n \in 1..Len(l) : IsOptionLineAt(l, n)
    IN  SubSeq(l, 1, IF l[d - 1] = SP THEN d - 2 ELSE d - 1)

OptionValue(l) ==
    LET d == CHOOSE n \in 1..Len(l) : IsOptionLineAt(l, n)
    IN  SubSeq(l, d + 2, Len(l) - 1)

\* every line of s ends in a line feed and is a header or an option line
WellFormed(s) ==
    /\ s = <<>> \/ s[Len(s)] = LF
    /\ \A i \in Starts(s) :
          C1_IsHeaderLine(LineAt(s, i)) \/ IsOptionLine(LineAt(s, i))

HeaderStarts(s) == {i \in Starts(s) : C1_IsHeaderLine(LineAt(s, i))}

OptionStarts(s) == {i \in Starts(s) : IsOptionLine(LineAt(s, i))}

\* the section named by the last header of s before place i
SectionAt(s, i) ==
    LET hs == {h \in HeaderStarts(s) : h < i}
    IN  IF hs = {} THEN DefaultName ELSE C1_Name(LineAt(s, MaxOf(hs)))

\* the option lines of s that set key k in section sec
Occurrences(s, sec, k) ==
    {i \in OptionStarts(s) : SectionAt(s, i) = sec /\ OptionKey(LineAt(s, i)) = k}

-----------------------------------------------------------------------------
(* C13 *)

\* an option returned by parseOption is being stored (lines 348-355)
C13_Stores ==
    /\ pc = "parseOption" \/ (pc = "skip" /\ skipRet = "parseOption:comment")
    /\ pc' = "ReadAll"
    /\ Len(TrimSpace(key)) # 0

\* the insertion sets the entry of the key in the current section to the
\* value just parsed and changes no other entry of any section
C13_Overwrites ==
    LET k == TrimSpace(key)
        old == IF currentSection \in DOMAIN sections
               THEN sections[currentSection] ELSE EmptyMap
    IN  /\ DOMAIN sections' = DOMAIN sections \cup {currentSection}
        /\ \A sec \in DOMAIN sections \ {currentSection} :
              sections'[sec] = sections[sec]
        /\ DOMAIN sections'[currentSection] = DOMAIN old \cup {k}
        /\ sections'[currentSection][k] = value'
        /\ \A j \in DOMAIN old \ {k} : sections'[currentSection][j] = old[j]

\* on an input of well-formed lines every key set in a section is present in
\* the Document with the value of its last line in that section
C13_LastValue ==
    (Ended /\ streamEnd = "EOF" /\ WellFormed(input)) =>
        /\ Succeeded
        /\ \A i \in OptionStarts(input) :
              LET sec == SectionAt(input, i)
                  k == OptionKey(LineAt(input, i))
                  last == MaxOf(Occurrences(input, sec, k))
              IN  /\ sec \in DOMAIN retSections.map
                  /\ k \in DOMAIN retSections.map[sec]
                  /\ retSections.map[sec][k] = OptionValue(LineAt(input, last))

\* C13: a key that occurs several times in one section is held once, with the
\* value of its last occurrence in input order: every insertion overwrites
\* the entry of its key in the current section only, and the entries of the
\* same key in other sections stay as they are.
C13_LastWriteWins == [][C13_Stores => C13_Overwrites]_vars /\ []C13_LastValue

\* "k = v", "[S]", "j = u", "[T]", "k: w", "[S]", "k: w": k is set twice in
\* S and once in T
C13_Witness ==
    /\ input = <<"k", SP, "=", SP, "v", LF, "[", "S", "]", LF,
                 "k", SP, "=", SP, "v", LF, "[", "T", "]", LF,
                 "k", SP, "=", SP, "v", LF, "[", "S", "]", LF,
                 "k", ":", SP, "w", LF>>
    /\ streamEnd = "EOF"
    /\ Succeeded
    /\ retSections.map[<<"S">>] = (<<"k">> :> <<"w">>)
    /\ retSections.map[<<"T">>] = (<<"k">> :> <<"v">>)
    /\ retSections.map[DefaultName] = (<<"k">> :> <<"v">>)

-----------------------------------------------------------------------------
(* C14 *)

\* what ReadAll has returned is the Document built and no error, or no
\* Document and an error
C14_DocumentOrError ==
    pc = "done" =>
        \/ retErr = NoErr /\ ~retSections.isNil /\ retSections.map = sections
        \/ retErr # NoErr /\ retSections = NilSections

\* the scan is at a line start and the input has ended
C14_AtPlainEnd == pc = "ReadAll" /\ pos = Len(input) /\ streamEnd = "EOF"

\* C14: ReadAll returns either a Document with a nil error or a nil Document
\* with a non-nil error, never both and never neither: a failing ReadAll does
\* not return the sections parsed before the failure, and end of input at a
\* line start is success.
C14_EitherDocumentOrError ==
    /\ []C14_DocumentOrError
    /\ [][C14_AtPlainEnd =>
            pc' = "done" /\ retErr' = NoErr /\ retSections' = Returned(sections)]_vars

\* "[S]", then "[U#": a section has been parsed when the second header fails
C14_Witness ==
    /\ input = <<"[", "S", "]", LF, "[", "U", "#", LF>>
    /\ streamEnd = "EOF"
    /\ DOMAIN sections = {<<"S">>}
    /\ FailedAt(2, 3, "ErrParse")

-----------------------------------------------------------------------------
(* C15 *)

\* the read of this step is answered by a failure of the stream
C15_ReadFails == ~Ended /\ readRune(pos).err = "ReadFailure"

\* C15: whenever the stream reports a failure other than end of input, at a
\* line start, inside a header, inside an option or while skip discards a
\* comment or the spaces after a delimiter, ReadAll stops there and returns
\* no Document and a ParseError that holds the cause with the current line
\* and column.
C15_ReadFailureLocated ==
    [][C15_ReadFails =>
          /\ pc' = "done"
          /\ retSections' = NilSections
          /\ retErr' = ParseError(line', column', "ReadFailure")]_vars

-----------------------------------------------------------------------------
(* C16 *)

\* the last line of s has no line feed
C16_OpenLastLine(s) == s = <<>> \/ s[Len(s)] # LF

\* C16: end of input is a valid end of the final line: on an input that does
\* not end in a line feed ReadAll ends as it does on that input with one line
\* feed appended, so a closed header or an option with a trailing inline
\* comment ("k = v # c") at the very end contributes its section or option.
C16_EndOfInputEndsLine ==
    (Ended /\ streamEnd = "EOF" /\ C16_OpenLastLine(input)) =>
        Outcome = ReadAllOf(input \o <<LF>>, "EOF")

\* the same statement for the inputs whose last line holds no inline comment:
\* no comment marker after a space or at the start of the value
C16_NoInlineComment(s) ==
    \A i \in 2..Len(s) :
        s[i] \in CommentMarkers =>
            \/ \E j \in 1..(i - 1) :
                  /\ s[j] \in CommentMarkers \cup {"["}
                  /\ j = 1 \/ s[j - 1] = LF
                  /\ \A n \in j..i : s[n] # LF
            \/ s[i - 1] = LF

C16_EndOfInputEndsLineNoComment ==
    C16_NoInlineComment(input) => C16_EndOfInputEndsLine

-----------------------------------------------------------------------------
(* C17 *)

\* s is one option line whose delimiter, at d, is followed by one space and
\* then directly by a comment marker: "key = # ...\n", "key: # ...\n"
C17_IsEmptyValueLine(s, d) ==
    /\ 2 <= d /\ d <= Len(s) - 3
    /\ s[d] \in Delimiters /\ s[d + 1] = SP /\ s[d + 2] \in CommentMarkers
    /\ C2_IsWord(s, 1, IF s[d - 1] = SP THEN d - 2 ELSE d - 1)
    /\ s[Len(s)] = LF
    /\ \A i \in 1..(Len(s) - 1) : s[i] # LF

C17_Key(s, d) == SubSeq(s, 1, IF s[d - 1] = SP THEN d - 2 ELSE d - 1)

\* C17: when the part of an option line after the delimiter and the discarded
\* space begins directly with a comment marker, the option is stored with the
\* empty string as its value and the rest of the line is discarded, whether or
\* not a space stands between the key and the delimiter: "k = # c", "k: # c"
\* and "k : ;c" all store k -> "".
C17_CommentOnlyValue ==
    \A d \in 1..Len(input) :
        (Ended /\ streamEnd = "EOF" /\ C17_IsEmptyValueLine(input, d)) =>
            /\ Succeeded
            /\ retSections.map = (DefaultName :> (C17_Key(input, d) :> <<>>))

\* the same lines never end in a run-time panic
C17_NoPanic ==
    \A d \in 1..Len(input) : C17_IsEmptyValueLine(input, d) => pc # "panic"

\* the same lines never keep the comment in the value
C17_NoCommentStored ==
    \A d \in 1..Len(input) :
        (Succeeded /\ C17_IsEmptyValueLine(input, d)) =>
            retSections.map = (DefaultName :> (C17_Key(input, d) :> <<>>))

-----------------------------------------------------------------------------
(* C18 *)

\* s is one line without a delimiter: a word and a line feed
C18_IsBareLine(s) ==
    /\ Len(s) >= 2
    /\ s[Len(s)] = LF
    /\ C2_IsWord(s, 1, Len(s) - 1)

\* C18: an option line that contains no delimiter never makes ReadAll fail;
\* it completes with the whole line taken as the key and the empty string as
\* the value.
C18_LineWithoutDelimiter ==
    (Ended /\ streamEnd = "EOF" /\ C18_IsBareLine(input)) =>
        /\ Succeeded
        /\ retSections.map =
              (DefaultName :> (SubSeq(input, 1, Len(input) - 1) :> <<>>))

\* the first half of the statement: such a line never makes ReadAll fail
C18_NeverFails ==
    (Ended /\ streamEnd = "EOF" /\ C18_IsBareLine(input)) => Succeeded

-----------------------------------------------------------------------------
(* C19 *)

\* at every line start of an input of well-formed lines the current section
\* is the one named by the last header before that line, "default" if none
C19_CurrentSection ==
    (pc = "ReadAll" /\ WellFormed(input)) =>
        currentSection = SectionAt(input, pos)

\* the Document of an input of well-formed lines has the sections of its
\* headers and of its option lines, and each section holds the keys of the
\* option lines that follow its headers, and no other
C19_OptionsOfSections ==
    (Ended /\ streamEnd = "EOF" /\ WellFormed(input)) =>
        /\ Succeeded
        /\ DOMAIN retSections.map =
              {C1_Name(LineAt(input, h)) : h \in HeaderStarts(input)}
                  \cup {SectionAt(input, i) : i \in OptionStarts(input)}
        /\ \A sec \in DOMAIN retSections.map :
              DOMAIN retSections.map[sec] =
                  {OptionKey(LineAt(input, i)) :
                      i \in {j \in OptionStarts(input) : SectionAt(input, j) = sec}}

\* parseHeader has returned a section name to ReadAll (lines 332-339)
C19_HeaderParsed == pc = "skip" /\ skipRet = "parseHeader" /\ pc' = "ReadAll"

\* C19: every option is inserted into the section named by the most recent
\* successfully parsed header before it in the input, the default section if
\* there is none; a header that names an existing section makes it the
\* current section and leaves the options it holds, and every other section,
\* as they are.
C19_OptionsFollowHeaders ==
    /\ []C19_CurrentSection
    /\ []C19_OptionsOfSections
    /\ [][C19_HeaderParsed =>
            /\ currentSection' = section
            /\ section \in DOMAIN sections'
            /\ \A sec \in DOMAIN sections : sections'[sec] = sections[sec]]_vars

\* "[S]", "k = v", "[T]", "k: w", "[S]", "j = u": S is entered twice and
\* holds the options of both visits
C19_Witness ==
    /\ input = <<"[", "S", "]", LF, "k", SP, "=", SP, "v", LF,
                 "[", "T", "]", LF, "k", ":", SP, "w", LF,
                 "[", "S", "]", LF, "j", SP, "=", SP, "u", LF>>
    /\ streamEnd = "EOF"
    /\ Succeeded
    /\ retSections.map =
          (<<"S">> :> (<<"k">> :> <<"v">> @@ <<"j">> :> <<"u">>))
              @@ (<<"T">> :> (<<"k">> :> <<"w">>))

-----------------------------------------------------------------------------
(* C20 *)

\* s holds no carriage return
C20_NoCR(s) == \A i \in 1..Len(s) : s[i] # CR

\* ReadAll ends on the input as it does on the input with every line feed
\* replaced by carriage return + line feed: the same Document, or the same
\* error with the same line and column
C20_SameOutcome ==
    (Ended /\ C20_NoCR(input)) => Outcome = ReadAllOf(CRLF(input), streamEnd)

\* a carriage return is being written to the field buffer, from which every
\* section name, key and value is taken
C20_WritesCR == Len(field') = Len(field) + 1 /\ field'[Len(field')] = CR

\* C20: line-ending folding: for every input without a carriage return,
\* replacing each line feed by carriage return + line feed gives the same
\* ReadAll outcome, and no carriage return that precedes a line feed ever
\* gets into a section name, key or value.
C20_LineEndingFolding ==
    /\ []C20_SameOutcome
    /\ [][C20_WritesCR =>
            /\ pos' < Len(input)
            /\ input[pos'] = CR
            /\ input[pos' + 1] # LF]_vars

\* "[S]\r\nk = v\r\n" gives section S with k -> "v"
C20_Witness ==
    /\ input = <<"[", "S", "]", CR, LF, "k", SP, "=", SP, "v", CR, LF>>
    /\ streamEnd = "EOF"
    /\ Succeeded
    /\ retSections.map = (<<"S">> :> (<<"k">> :> <<"v">>))

\* a carriage return not followed by a line feed is kept as a literal rune
C20_WitnessBareCR ==
    /\ Succeeded
    /\ \E name \in DOMAIN retSections.map : \E i \in 1..Len(name) : name[i] = CR

-----------------------------------------------------------------------------
(* C21 *)

\* ReadAll has read the first rune of an option line and pushes it back
\* (lines 340-342)
C21_PushesBack == pc = "ReadAll" /\ pc' = "parseOption"

\* C21: pushback round trip: when readRune has delivered a rune and ReadAll
\* pushes it back, the next readRune delivers the same rune again and the
\* column is back at its value before the first read; this holds for a bare
\* carriage return too, so the first rune of an option line is never lost.
C21_PushbackRoundTrip ==
    [][C21_PushesBack =>
          /\ readRune(pos').err = "nil"
          /\ readRune(pos').r = readRune(pos).r
          /\ column' = 0]_vars

\* the same statement for every first rune but a bare carriage return
C21_PushbackRoundTripNoBareCR ==
    [][(C21_PushesBack /\ readRune(pos).r # CR) =>
          /\ readRune(pos').err = "nil"
          /\ readRune(pos').r = readRune(pos).r
          /\ column' = 0]_vars

-----------------------------------------------------------------------------
(* C22 *)

\* the number of line feeds among the first n runes of s
C22_LineFeeds(s, n) == Cardinality({i \in 1..n : s[i] = LF})

\* C22: the Line of every ParseError ReadAll returns is the 1-based number of
\* the input line on which the error was detected: one plus the number of
\* line feeds consumed before the offending rune, on every input, those with
\* an option without a space after its delimiter or a header with trailing
\* content included.
C22_LineOfError ==
    (pc = "done" /\ retErr.located) =>
        retErr.line = 1 + C22_LineFeeds(input, pos - 1)

\* the same statement for the inputs in which every delimiter is followed by
\* a space and every '[' is closed on its line
C22_LineOfErrorRegular == C11_Regular(input) => C22_LineOfError

\* the same statement for the inputs in which every '[' is directly followed
\* by a comment marker or by ']', so that no header name holds a line feed
C22_LineOfErrorAfterOption ==
    (\A i \in 1..Len(input) :
        input[i] = "[" => (i < Len(input) /\ input[i + 1] \in {"#", "]"}))
            => C22_LineOfError

-----------------------------------------------------------------------------
(* C23 *)

\* parseOption is at line 422: it has met a comment marker after rune 0 or
\* a space and cuts the last byte off the field buffer
C23_Truncates ==
    /\ pc = "parseOption"
    /\ readRune(pos).err = "nil"
    /\ IsComment(readRune(pos).r)
    /\ lastRune = NUL \/ lastRune = SP

\* C23: on every input ReadAll ends by returning a Document or an error and
\* never aborts abnormally; in particular the inline-comment truncation is
\* only reached with a non-empty buffer whose last rune is a space.
C23_NeverAborts ==
    /\ [](pc # "panic")
    /\ [][C23_Truncates => (field # <<>> /\ field[Len(field)] = SP)]_vars

\* the truncation never meets an empty buffer
C23_TruncatesNonEmpty == [][C23_Truncates => field # <<>>]_vars

\* on an input without rune 0 the truncation cuts nothing but a space
C23_TruncatesSpace ==
    [][(C23_Truncates /\ field # <<>> /\ \A i \in 1..Len(input) : input[i] # NUL)
          => field[Len(field)] = SP]_vars

-----------------------------------------------------------------------------
(* C24 *)

\* the current section is "default" or a section of the Document being built
C24_CurrentSectionExists ==
    currentSection = DefaultName \/ currentSection \in DOMAIN sections

\* C24: at every point where ReadAll inserts an option the current section
\* has an option map to take it: the current section is "default", created on
\* first use, or a section created by a successfully parsed header, so no
\* insertion targets a missing option map.
C24_InsertionFindsSection ==
    /\ []C24_CurrentSectionExists
    /\ [][C13_Stores =>
            /\ HasOptionMap(sections, currentSection)
            /\ currentSection \in DOMAIN sections'
            /\ TrimSpace(key) \in DOMAIN sections'[currentSection]]_vars

\* "[T]", then "k: w": the option is stored in the section of the header
C24_Witness ==
    /\ input = <<"[", "T", "]", LF, "k", ":", SP, "w", LF>>
    /\ streamEnd = "EOF"
    /\ pc = "ReadAll"
    /\ currentSection = <<"T">>
    /\ sections = (<<"T">> :> (<<"k">> :> <<"w">>))

-----------------------------------------------------------------------------
(* C25 *)

\* the runes of the stream not yet consumed
C25_Left == Len(input) - pos

\* how far the loop at pc is from ReadAll's next return or consumed rune:
\* with runes left, ReadAll may still hand its first rune back to
\* parseOption; at the end of the stream skip returns to its caller,
\* parseHeader and parseOption return to ReadAll, and ReadAll returns
C25_Rank ==
    IF C25_Left > 0
    THEN (IF pc = "ReadAll" THEN 2 ELSE 1)
    ELSE (IF pc = "skip" THEN 3 ELSE IF pc = "ReadAll" THEN 1 ELSE 2)

\* a measure of the work left
C25_Measure == IF Ended THEN 0 ELSE 4 * C25_Left + C25_Rank

\* one pass of the loop of ReadAll that goes on has consumed a rune
C25_PassConsumes ==
    (pc = "ReadAll" /\ ~Ended') =>
        (pos' > pos \/ (pc' = "parseOption" /\ readRune(pos').err = "nil"))

\* C25: ReadAll terminates on every finite input: each pass of its loop
\* returns or consumes at least one rune of the stream (a first rune pushed
\* back is consumed by parseOption), and the loops of skip, parseHeader and
\* parseOption end at their delimiter or at the end of the input.
C25_Terminates ==
    /\ <>Ended
    /\ [][C25_Measure' < C25_Measure]_vars
    /\ [][C25_PassConsumes]_vars
    /\ [][(pc \in {"skip", "parseHeader", "parseOption"} /\ pc' = pc) => pos' > pos]_vars

\* the input of TestParseCommentLines has been read to its end through the
\* loops of skip, parseHeader and parseOption
C25_Witness ==
    /\ input = InParseCommentLines
    /\ pc = "done"
    /\ pos = Len(input)
    /\ line = 6

====
